---- MODULE Spec2Model ----
(***************************************************************************)
(* Model of homework.py: a single-threaded polling bot.  main() checks the *)
(* three tokens, announces itself, then loops: get_api_answer,             *)
(* check_response, parse_status, send_message, time.sleep, with one broad  *)
(* `except Exception` handler that reports failures.                       *)
(*                                                                         *)
(* Python strings are modelled as sequences of text pieces, so that an     *)
(* f-string is a concatenation and "contains" is a search for a piece.     *)
(* The Russian literals of the source are transliterated to ASCII.         *)
(* JSON values are tagged: [t |-> "dict", v |-> record], [t |-> "list",    *)
(* v |-> sequence], [t |-> "int", v |-> n], [t |-> "str", v |-> s].        *)
(***************************************************************************)
EXTENDS Integers, Sequences, FiniteSets, TLC

\* ------------------------------------------------------------------ bounds
\* current_date values reported by the server are 0..MaxDate
MaxDate == 2
\* longest `homeworks` list the server returns
MaxLen == 2

\* --------------------------------------------------------------- constants
\* os.getenv() result: None when the variable is unset
None == "None"
EnvValues == {None, "", "token"}

\* http.HTTPStatus.OK, as the text that an f-string prints for status_code
HTTP_OK == "200"
StatusCodes == {"200", "404", "500"}

\* homework.py:34-38
HOMEWORK_VERDICTS ==
    [approved  |-> "Rabota proverena: revyueru vsyo ponravilos. Ura!",
     reviewing |-> "Rabota vzyata na proverku revyuerom.",
     rejected  |-> "Rabota proverena: u revyuera est zamechaniya."]

\* ----------------------------------------------------------- JSON values
JDict(r) == [t |-> "dict", v |-> r]
JList(s) == [t |-> "list", v |-> s]
JInt(n)  == [t |-> "int", v |-> n]
JStr(s)  == [t |-> "str", v |-> s]

\* isinstance(x, dict), isinstance(x, list)
IsDict(x) == x.t = "dict"
IsList(x) == x.t = "list"

\* `key in d` for a dict d
HasKey(d, key) == key \in DOMAIN d.v

Names == {"hw1", "hw2"}
Statuses == {"approved", "reviewing", "rejected", "cancelled"}

\* homework records: every combination of present/absent fields
Homeworks ==
    {JDict([homework_name |-> n, status |-> s]) : n \in Names, s \in Statuses}
    \cup {JDict([homework_name |-> n]) : n \in Names}
    \cup {JDict([status |-> s]) : s \in Statuses}
    \cup {JDict(<<>>)}

\* elements after the first one of a `homeworks` list
TailHomeworks ==
    {JDict([homework_name |-> "hw2", status |-> "rejected"]),
     JDict([homework_name |-> "hw1"])}

RECURSIVE Tails(_)
Tails(n) ==
    IF n = 0 THEN {<<>>}
    ELSE Tails(n - 1) \cup
         {Append(s, h) : s \in {x \in Tails(n - 1) : Len(x) = n - 1},
                         h \in TailHomeworks}

HomeworkLists ==
    {<<>>} \cup {<<h>> \o s : h \in Homeworks, s \in Tails(MaxLen - 1)}

Dates == 0..MaxDate

\* the values a `homeworks` key can carry: a list, or something else
HomeworksValues == {JList(l) : l \in HomeworkLists} \cup {JStr("none")}

\* decoded bodies of a 200 response
Payloads ==
    {JDict([homeworks |-> h, current_date |-> d]) :
        h \in HomeworksValues, d \in Dates}
    \cup {JDict([homeworks |-> h]) : h \in HomeworksValues}
    \cup {JDict([current_date |-> d]) : d \in Dates}
    \cup {JDict(<<>>)}
    \cup {JList(<<>>)}

\* what requests.get() and Response.json() can do in one call
ErrorBodies ==
    {[json |-> FALSE],
     [json |-> TRUE,
      value |-> JDict([homeworks |-> JList(<<>>), current_date |-> 1])]}

HttpOutcomes ==
    {[kind |-> "neterr"]}
    \cup {[kind |-> "http", status |-> HTTP_OK, body |-> [json |-> FALSE]]}
    \cup {[kind |-> "http", status |-> HTTP_OK,
           body |-> [json |-> TRUE, value |-> p]] : p \in Payloads}
    \cup {[kind |-> "http", status |-> s, body |-> b] :
            s \in StatusCodes \ {HTTP_OK}, b \in ErrorBodies}

\* what bot.send_message() can do in one call
TransportOutcomes == {"ok", "error"}

\* ------------------------------------------------- results and exceptions
Ok(v) == [ok |-> TRUE, value |-> v]
Raise(type, msg) == [ok |-> FALSE, type |-> type, msg |-> msg]

\* exceptions.py, plus the builtin exceptions the code raises
ExceptionClasses ==
    {"RequestStatusError", "KeyNotFound", "SendMessageError",
     "VerdictNotFound", "TypeError", "KeyError", "IndexError"}

\* a handler that names one exception class instead of Exception
CatchesOnlyRequestStatusError(type) == type = "RequestStatusError"

\* homework.py:158  `except Exception as error`
Catches(type) == type \in ExceptionClasses

\* is the piece `piece` part of the text `text`
Contains(text, piece) == \E i \in 1..Len(text) : text[i] = piece

\* ------------------------------------------------------------ check_tokens
\* Python truthiness of an os.getenv() result
Truthy(v) == v # None /\ v # ""

\* any() where the code has all()
check_tokens_any(e) ==
    \/ Truthy(e["PRACTICUM_TOKEN"])
    \/ Truthy(e["TELEGRAM_CHAT_ID"])
    \/ Truthy(e["TELEGRAM_TOKEN"])

\* homework.py:43  all([PRACTICUM_TOKEN, TELEGRAM_CHAT_ID, TELEGRAM_TOKEN])
check_tokens(e) ==
    /\ Truthy(e["PRACTICUM_TOKEN"])
    /\ Truthy(e["TELEGRAM_CHAT_ID"])
    /\ Truthy(e["TELEGRAM_TOKEN"])

\* ------------------------------------------------------------ send_message
\* a notifier that logs the transport error and returns
send_message_swallow(outcome, text) == Ok(None)

\* homework.py:50-61
send_message(outcome, text) ==
    IF outcome = "ok"
    THEN Ok(None)
    ELSE Raise("SendMessageError",
               <<"Oshibka pri otpravke soobshcheniya: ", "TelegramError">>)

\* ---------------------------------------------------------- get_api_answer
\* a status check that lets every 4xx answer through
StatusIsServerError(status) == status = "500"

\* homework.py:75  homeworks.status_code != HTTPStatus.OK
StatusIsError(status) == status # HTTP_OK

\* a wrapper that leaves the original error text out
WrapRequestErrorNoText(msg) ==
    Raise("RequestStatusError", <<"Oshibka pri vypolnenii zaprosa">>)

\* homework.py:82-85  every exception of the try block is wrapped
WrapRequestError(msg) ==
    Raise("RequestStatusError", <<"Oshibka pri vypolnenii zaprosa:">> \o msg)

\* a client that decodes the body outside the try block
get_api_answer_unwrapped_decode(h) ==
    IF h.kind = "neterr"
    THEN WrapRequestError(<<"ConnectionError">>)
    ELSE IF StatusIsError(h.status)
    THEN WrapRequestError(
             <<"Oshibka pri vypolnenii zaprosa.", "Status:", h.status, ".">>)
    ELSE IF ~h.body.json
    THEN Raise("TypeError", <<"JSONDecodeError">>)
    ELSE Ok(h.body.value)

\* homework.py:64-85
get_api_answer(h) ==
    IF h.kind = "neterr"
    THEN WrapRequestError(<<"ConnectionError">>)
    ELSE IF StatusIsError(h.status)
    THEN WrapRequestError(
             <<"Oshibka pri vypolnenii zaprosa.", "Status:", h.status, ".">>)
    ELSE IF ~h.body.json
    THEN WrapRequestError(<<"JSONDecodeError">>)
    ELSE Ok(h.body.value)

\* ---------------------------------------------------------- check_response
\* a validator that returns homeworks[-1]
check_response_last(response) ==
    IF ~IsDict(response)
    THEN Raise("TypeError", <<"Otvet ot API ne yavlyaetsya slovarem">>)
    ELSE IF ~HasKey(response, "homeworks") \/ ~HasKey(response, "current_date")
    THEN Raise("KeyNotFound", <<"V otvete ot API otsutstvuet klyuch: {key}.">>)
    ELSE IF ~IsList(response.v.homeworks)
    THEN Raise("TypeError", <<"Homeworks ne yavlyaetsya spiskom">>)
    ELSE IF Len(response.v.homeworks.v) = 0
    THEN Raise("IndexError", <<"list index out of range">>)
    ELSE Ok(response.v.homeworks.v[Len(response.v.homeworks.v)])

\* homework.py:88-109
check_response(response) ==
    IF ~IsDict(response)
    THEN Raise("TypeError", <<"Otvet ot API ne yavlyaetsya slovarem">>)
    ELSE IF ~HasKey(response, "homeworks") \/ ~HasKey(response, "current_date")
    THEN Raise("KeyNotFound", <<"V otvete ot API otsutstvuet klyuch: {key}.">>)
    ELSE IF ~IsList(response.v.homeworks)
    THEN Raise("TypeError", <<"Homeworks ne yavlyaetsya spiskom">>)
    ELSE IF Len(response.v.homeworks.v) = 0
    THEN Raise("IndexError", <<"list index out of range">>)
    ELSE Ok(response.v.homeworks.v[1])

\* ------------------------------------------------------------ parse_status
\* a translator that looks the verdict up before it checks the keys
parse_status_verdict_first(homework) ==
    IF HasKey(homework, "status")
       /\ homework.v.status \notin DOMAIN HOMEWORK_VERDICTS
    THEN Raise("VerdictNotFound", <<"Neozhidannyy status domashney raboty.">>)
    ELSE IF ~HasKey(homework, "status")
    THEN Raise("KeyNotFound",
               <<"U spiska homeworks otsutstvuet klyuch: ", "status", ".">>)
    ELSE IF ~HasKey(homework, "homework_name")
    THEN Raise("KeyNotFound",
               <<"U spiska homeworks otsutstvuet klyuch: ", "homework_name",
                 ".">>)
    ELSE Ok(<<"Izmenilsya status proverki raboty \"",
              homework.v.homework_name, "\". ",
              HOMEWORK_VERDICTS[homework.v.status]>>)

\* homework.py:112-133
parse_status(homework) ==
    IF ~HasKey(homework, "status")
    THEN Raise("KeyNotFound",
               <<"U spiska homeworks otsutstvuet klyuch: ", "status", ".">>)
    ELSE IF ~HasKey(homework, "homework_name")
    THEN Raise("KeyNotFound",
               <<"U spiska homeworks otsutstvuet klyuch: ", "homework_name",
                 ".">>)
    ELSE IF homework.v.status \notin DOMAIN HOMEWORK_VERDICTS
    THEN Raise("VerdictNotFound", <<"Neozhidannyy status domashney raboty.">>)
    ELSE Ok(<<"Izmenilsya status proverki raboty \"",
              homework.v.homework_name, "\". ",
              HOMEWORK_VERDICTS[homework.v.status]>>)

\* -------------------------------------------------------------------- main
\* homework.py:141
StartMessage == <<"Nachinayu proverku domashnih rabot">>

\* homework.py:148  response['current_date']
CurrentDate(response) ==
    IF ~IsDict(response)
    THEN Raise("TypeError",
               <<"list indices must be integers or slices, not str">>)
    ELSE IF ~HasKey(response, "current_date")
    THEN Raise("KeyError", <<"'current_date'">>)
    ELSE Ok(response.v.current_date)

\* homework.py:159  f'Sboy v rabote programmy: {error}'
FailureMessage(error) == <<"Sboy v rabote programmy: ">> \o error.msg

NoExc == [ok |-> TRUE, value |-> None]
NoHttp == [kind |-> "none"]
NoResponse == JStr("unset")
NoHomework == JStr("unset")

\* homework.py:29
RETRY_PERIOD == 600

\* homework.py:46  sys.exit(arg): the exit status is 0 when arg is None
sys_exit(arg) == IF arg = None THEN <<0>> ELSE <<arg>>

\* exit status of the interpreter when an exception leaves main()
UncaughtException == <<1>>

\* an `else` branch that goes round without sleeping
LoopSleepNotWhenSuppressed(line) ==
    IF line = 166 THEN <<>> ELSE <<RETRY_PERIOD>>

\* homework.py:157, 164, 166  time.sleep(RETRY_PERIOD)
LoopSleep(line) == <<RETRY_PERIOD>>

\* a handler that reports every failure
IsNewErrorAlways(last, text) == TRUE

\* homework.py:160  last_error != message
IsNewError(last, text) == last # text

VARIABLES
    env,           \* the three module-level tokens (homework.py:25-27)
    pc,            \* where main() is
    botCreated,    \* telegram.Bot(...) has been constructed (line 140)
    timestamp,     \* main's local `timestamp`, the cursor
    last_message,  \* main's local `last_message`
    last_error,    \* main's local `last_error`
    response,      \* main's local `response`
    message,       \* main's local `message`
    exc,           \* the exception raised in this cycle's try block, if any
    http,          \* what the HTTP call of this cycle did
    cycleStart,    \* value of `timestamp` when this cycle's fetch was made
    calls,         \* send_message invocations of this cycle, in order
    homework,      \* main's local `homework`
    exitCode,      \* <<>> while running, <<status>> once the process ended
    requests,      \* requests.get calls made by this cycle's get_api_answer
    sleeps,        \* durations of the time.sleep calls since the last fetch
    everFetched,   \* get_api_answer has been called at least once
    announced,     \* number of send_message calls for StartMessage
    lastStatusDelivered,   \* text of the last status message delivered
    lastFailureDelivered   \* text of the last failure report delivered

vars == <<env, pc, botCreated, timestamp, last_message, last_error, response,
          message, exc, http, cycleStart, calls, homework, exitCode, requests,
          sleeps, everFetched, announced, lastStatusDelivered,
          lastFailureDelivered>>

locals == <<timestamp, last_message, last_error, response, message>>

delivered == <<lastStatusDelivered, lastFailureDelivered>>

Call(text, outcome, line) ==
    [message |-> text, ok |-> outcome = "ok", line |-> line]

Init ==
    /\ env \in [{"PRACTICUM_TOKEN", "TELEGRAM_TOKEN", "TELEGRAM_CHAT_ID"}
                    -> EnvValues]
    /\ pc = "start"
    /\ botCreated = FALSE
    /\ timestamp = 0
    /\ last_message = <<>>
    /\ last_error = <<>>
    /\ response = NoResponse
    /\ message = <<>>
    /\ exc = NoExc
    /\ http = NoHttp
    /\ cycleStart = 0
    /\ calls = <<>>
    /\ homework = NoHomework
    /\ exitCode = <<>>
    /\ requests = 0
    /\ sleeps = <<>>
    /\ everFetched = FALSE
    /\ announced = 0
    /\ lastStatusDelivered = <<>>
    /\ lastFailureDelivered = <<>>

\* homework.py:139, 41-47
CheckTokens ==
    /\ pc = "start"
    /\ pc' = IF check_tokens(env) THEN "announce" ELSE "exited"
    /\ exitCode' = IF check_tokens(env) THEN exitCode ELSE sys_exit(None)
    /\ UNCHANGED <<env, botCreated, locals, exc, http, cycleStart, calls,
                   homework, requests, sleeps, everFetched, announced,
                   delivered>>

\* homework.py:140-144
Announce ==
    /\ pc = "announce"
    /\ botCreated' = TRUE
    /\ \E outcome \in TransportOutcomes :
         /\ calls' = <<Call(StartMessage, outcome, 141)>>
         /\ pc' = IF send_message(outcome, StartMessage).ok
                  THEN "fetch" ELSE "crashed"
    /\ exitCode' = IF pc' = "crashed" THEN UncaughtException ELSE exitCode
    /\ announced' = announced + 1
    /\ timestamp' = 0
    /\ last_message' = <<>>
    /\ last_error' = <<>>
    /\ UNCHANGED <<env, response, message, exc, http, cycleStart, homework,
                   requests, sleeps, everFetched, delivered>>

\* homework.py:145-147: the next iteration starts and calls get_api_answer
GetApiAnswer ==
    /\ pc = "fetch"
    /\ \E h \in HttpOutcomes :
         LET r == get_api_answer(h) IN
         /\ http' = h
         /\ IF r.ok
            THEN /\ response' = r.value
                 /\ exc' = NoExc
                 /\ pc' = "process"
            ELSE /\ response' = response
                 /\ exc' = r
                 /\ pc' = IF Catches(r.type) THEN "except" ELSE "crashed"
    /\ exitCode' = IF pc' = "crashed" THEN UncaughtException ELSE exitCode
    /\ cycleStart' = timestamp
    /\ calls' = <<>>
    /\ requests' = 1
    /\ sleeps' = <<>>
    /\ everFetched' = TRUE
    /\ UNCHANGED <<env, botCreated, timestamp, last_message, last_error,
                   message, homework, announced, delivered>>

\* homework.py:148-150
Process ==
    /\ pc = "process"
    /\ LET cd == CurrentDate(response)
           hw == check_response(response)
           ms == parse_status(hw.value)
           r  == IF ~cd.ok THEN cd ELSE IF ~hw.ok THEN hw ELSE ms
       IN
       /\ timestamp' = IF cd.ok THEN cd.value ELSE timestamp
       /\ homework' = IF cd.ok /\ hw.ok THEN hw.value ELSE homework
       /\ IF r.ok
          THEN /\ message' = r.value
               /\ exc' = exc
               /\ pc' = "send"
          ELSE /\ message' = message
               /\ exc' = r
               /\ pc' = IF Catches(r.type) THEN "except" ELSE "crashed"
    /\ exitCode' = IF pc' = "crashed" THEN UncaughtException ELSE exitCode
    /\ UNCHANGED <<env, botCreated, last_message, last_error, response, http,
                   cycleStart, calls, requests, sleeps, everFetched, announced,
                   delivered>>

\* lines 152 and 153 exchanged: last_message assigned before the send
SendStatusAssignFirst ==
    /\ pc = "send"
    /\ \E outcome \in TransportOutcomes :
         LET line == IF message # last_message THEN 152 ELSE 156
             r == send_message(outcome, message)
         IN
         /\ calls' = Append(calls, Call(message, outcome, line))
         /\ lastStatusDelivered' =
                IF outcome = "ok" THEN message ELSE lastStatusDelivered
         /\ last_message' = message
         /\ IF r.ok
            THEN /\ exc' = exc
                 /\ pc' = "sleep"
                 /\ sleeps' = sleeps \o LoopSleep(157)
            ELSE /\ exc' = r
                 /\ pc' = IF Catches(r.type) THEN "except" ELSE "crashed"
                 /\ sleeps' = sleeps
    /\ exitCode' = IF pc' = "crashed" THEN UncaughtException ELSE exitCode
    /\ UNCHANGED <<env, botCreated, timestamp, last_error, response, message,
                   http, cycleStart, homework, requests, everFetched,
                   announced, lastFailureDelivered>>

\* homework.py:151-157
SendStatus ==
    /\ pc = "send"
    /\ \E outcome \in TransportOutcomes :
         LET line == IF message # last_message THEN 152 ELSE 156
             r == send_message(outcome, message)
         IN
         /\ calls' = Append(calls, Call(message, outcome, line))
         /\ lastStatusDelivered' =
                IF outcome = "ok" THEN message ELSE lastStatusDelivered
         /\ IF r.ok
            THEN /\ last_message' = message
                 /\ exc' = exc
                 /\ pc' = "sleep"
                 /\ sleeps' = sleeps \o LoopSleep(157)
            ELSE /\ last_message' = last_message
                 /\ exc' = r
                 /\ pc' = IF Catches(r.type) THEN "except" ELSE "crashed"
                 /\ sleeps' = sleeps
    /\ exitCode' = IF pc' = "crashed" THEN UncaughtException ELSE exitCode
    /\ UNCHANGED <<env, botCreated, timestamp, last_error, response, message,
                   http, cycleStart, homework, requests, everFetched,
                   announced, lastFailureDelivered>>

\* homework.py:158-166
HandleError ==
    /\ pc = "except"
    /\ message' = FailureMessage(exc)
    /\ IF IsNewError(last_error, message')
       THEN \E outcome \in TransportOutcomes :
              /\ calls' = Append(calls, Call(message', outcome, 161))
              /\ lastFailureDelivered' =
                     IF outcome = "ok" THEN message' ELSE lastFailureDelivered
              /\ IF send_message(outcome, message').ok
                 THEN /\ last_error' = message'
                      /\ pc' = "sleep"
                      /\ sleeps' = sleeps \o LoopSleep(164)
                 ELSE /\ last_error' = last_error
                      /\ pc' = "crashed"
                      /\ sleeps' = sleeps
       ELSE /\ calls' = calls
            /\ lastFailureDelivered' = lastFailureDelivered
            /\ last_error' = last_error
            /\ pc' = "sleep"
            /\ sleeps' = sleeps \o LoopSleep(166)
    /\ exitCode' = IF pc' = "crashed" THEN UncaughtException ELSE exitCode
    /\ UNCHANGED <<env, botCreated, timestamp, last_message, response, exc,
                   http, cycleStart, homework, requests, everFetched,
                   announced, lastStatusDelivered>>

\* homework.py:157, 164, 166: time.sleep(RETRY_PERIOD) returns and the loop
\* goes round.  `response`, `message` and `homework` are assigned again
\* (lines 147, 149, 150, 159) before anything reads them, so their old values
\* are dropped here together with the per-cycle records.
Sleep ==
    /\ pc = "sleep"
    /\ pc' = "fetch"
    /\ response' = NoResponse
    /\ message' = <<>>
    /\ homework' = NoHomework
    /\ exc' = NoExc
    /\ http' = NoHttp
    /\ cycleStart' = timestamp
    /\ calls' = <<>>
    /\ requests' = 0
    /\ UNCHANGED <<env, botCreated, timestamp, last_message, last_error,
                   exitCode, sleeps, everFetched, announced, delivered>>

Next ==
    \/ CheckTokens
    \/ Announce
    \/ GetApiAnswer
    \/ Process
    \/ SendStatus
    \/ HandleError
    \/ Sleep

Spec == Init /\ [][Next]_vars

TypeOK ==
    /\ pc \in {"start", "exited", "announce", "fetch", "process", "send",
               "except", "sleep", "crashed"}
    /\ timestamp \in Dates
    /\ botCreated \in BOOLEAN
    /\ Len(calls) <= 2

\* ------------------------------------------------------------------ claims
\* the three kinds of fetch failure: network error, non-200 status, body that
\* does not decode
FetchFailed(h) ==
    \/ h.kind = "neterr"
    \/ h.kind = "http" /\ (h.status # "200" \/ ~h.body.json)

Fetched == http # NoHttp
Non200 == http.kind = "http" /\ http.status # "200"
AllTokensPresent == \A k \in DOMAIN env : env[k] # None /\ env[k] # ""
MissingKey(r) ==
    IsDict(r) /\ (~HasKey(r, "homeworks") \/ ~HasKey(r, "current_date"))
WellFormedEmpty(r) ==
    /\ IsDict(r)
    /\ HasKey(r, "homeworks") /\ HasKey(r, "current_date")
    /\ IsList(r.v.homeworks) /\ r.v.homeworks.v = <<>>
\* the step taken invoked send_message and the transport raised
SendFailedInStep ==
    Len(calls') > Len(calls) /\ ~calls'[Len(calls')].ok

\* C1: a failed delivery inside the loop, of a status message or of a failure
\* report, never terminates main(): no state of the loop has the process
\* stopped after a send_message call that raised.
C1_SendFailureKeepsLoop ==
    (Fetched /\ \E i \in 1..Len(calls) : ~calls[i].ok) => pc # "crashed"

\* C2: an error raised by get_api_answer, check_response or parse_status
\* (or by main's own read of the response) is caught, the handler ends in the
\* sleep when its report is delivered or suppressed, the sleep is followed by
\* the next fetch, and main() stops inside the loop only after a send_message
\* call that raised.
C2_ProcessingErrorsNeverTerminate ==
    /\ [](pc = "crashed" => \E i \in 1..Len(calls) : ~calls[i].ok)
    /\ [][/\ (pc \in {"fetch", "process"} /\ ~exc'.ok) => pc' = "except"
          /\ (pc = "except" /\ exc.type # "SendMessageError"
                /\ ~SendFailedInStep) => pc' = "sleep"
          /\ pc = "sleep" => pc' = "fetch"]_vars

\* C2 witness: a second consecutive failing cycle (its report suppressed as a
\* duplicate of the first one) has reached the sleep.
C2_Witness ==
    /\ pc = "sleep"
    /\ ~exc.ok /\ exc.type = "VerdictNotFound"
    /\ calls = <<>>
    /\ last_error = FailureMessage(exc)

\* C3: in a cycle whose payload lacks `homeworks` or `current_date`, the
\* error is KeyNotFound and the cursor has the value it had at the fetch.
C3_MissingKeyKeepsCursor ==
    (pc \in {"except", "sleep", "crashed"} /\ MissingKey(response))
        => (~exc.ok /\ exc.type = "KeyNotFound" /\ timestamp = cycleStart)

\* C4: in a cycle whose response is well-formed with an empty `homeworks`
\* list, send_message is never invoked and the cursor is the response's
\* current_date.
C4_EmptyListSilent ==
    (pc \in {"send", "except", "sleep", "crashed"} /\ WellFormedEmpty(response))
        => (calls = <<>> /\ timestamp = response.v.current_date)

\* C5: when the translated message equals last_message, the step that
\* handles it does not invoke send_message.
C5_DuplicateNotSent ==
    [][(pc = "send" /\ message = last_message) => calls' = calls]_vars

\* C6: the cursor never decreases.
C6_CursorMonotone == [][timestamp' >= timestamp]_vars

\* C7: the cursor changes only in a cycle whose fetch succeeded, and then to
\* that response's current_date; while a cycle's fetch has failed the cursor
\* is the one the cycle started with.
C7_CursorFrame ==
    /\ [](Fetched /\ FetchFailed(http) => timestamp = cycleStart)
    /\ [][timestamp' # timestamp =>
            /\ pc = "process"
            /\ ~FetchFailed(http)
            /\ HasKey(http.body.value, "current_date")
            /\ timestamp' = http.body.value.v.current_date]_vars

\* C7 witness: a cycle whose fetch succeeded has moved the cursor.
C7_Witness ==
    /\ pc = "send"
    /\ ~FetchFailed(http)
    /\ timestamp # cycleStart
    /\ timestamp = response.v.current_date

\* C8: in a cycle where send_message raised for the status message, the
\* cursor has the value it had at the fetch.
C8_CursorOnlyAfterDelivery ==
    (Len(calls) >= 1 /\ calls[1].line \in {152, 156} /\ ~calls[1].ok)
        => timestamp = cycleStart

\* C9: after a non-200 answer the cycle's error is RequestStatusError, the
\* cursor is unchanged, the failure report contains the status code, and the
\* handler invokes send_message with it exactly when it differs from
\* last_error.
C9_Non200Reported ==
    /\ [](Non200 =>
            /\ pc \in {"except", "sleep", "crashed"}
            /\ ~exc.ok /\ exc.type = "RequestStatusError"
            /\ timestamp = cycleStart
            /\ pc \in {"sleep", "crashed"} =>
                 /\ message = FailureMessage(exc)
                 /\ Contains(message, http.status)
                 /\ \A i \in 1..Len(calls) : calls[i].message = message)
    /\ [][(Non200 /\ pc = "except") =>
            IF last_error = message'
            THEN calls' = calls
            ELSE /\ Len(calls') = 1
                 /\ calls'[1].message = message'
                 /\ Contains(calls'[1].message, http.status)]_vars

\* C9 witness: the report of a 500 answer has been delivered.
C9_Witness ==
    /\ pc = "sleep"
    /\ Non200 /\ http.status = "500"
    /\ Len(calls) = 1 /\ calls[1].ok
    /\ Contains(calls[1].message, "500")

\* C10: with a token absent or empty, main() gets no further than
\* check_tokens: no bot, no send_message call, no fetch.
C10_MissingTokenStopsBeforeLoop ==
    ~AllTokensPresent =>
        /\ pc \in {"start", "exited"}
        /\ ~botCreated
        /\ calls = <<>>
        /\ ~Fetched

\* C10 witness: main() has exited with exactly one token missing.
C10_Witness ==
    /\ pc = "exited"
    /\ Cardinality({k \in DOMAIN env : env[k] \in {None, ""}}) = 1

\* C11: when required configuration is missing the process ends with a
\* non-zero exit status.
C11_AbnormalExitStatus ==
    (pc = "exited" /\ ~AllTokensPresent) => (exitCode # <<>> /\ exitCode # <<0>>)

\* the translation the claim describes, for a homework record h
RefParseStatus(h) ==
    IF "status" \notin DOMAIN h.v \/ "homework_name" \notin DOMAIN h.v
    THEN [ok |-> FALSE, type |-> "KeyNotFound"]
    ELSE IF h.v.status \notin {"approved", "reviewing", "rejected"}
    THEN [ok |-> FALSE, type |-> "VerdictNotFound"]
    ELSE [ok |-> TRUE,
          value |-> <<"Izmenilsya status proverki raboty \"">>
                    \o <<h.v.homework_name>> \o <<"\". ">>
                    \o <<HOMEWORK_VERDICTS[h.v.status]>>]

\* parse_status has just been applied to main's `homework`
Translated == pc \in {"send", "except"} /\ calls = <<>> /\ homework.t = "dict"

\* C12: parse_status agrees with the reference: KeyNotFound when `status` or
\* `homework_name` is absent, else VerdictNotFound when the status is not one
\* of the three, else the template text with the name and the verdict.
C12_ParseStatusReference ==
    Translated =>
        IF RefParseStatus(homework).ok
        THEN pc = "send" /\ message = RefParseStatus(homework).value
        ELSE /\ pc = "except"
             /\ ~exc.ok /\ exc.type = RefParseStatus(homework).type

\* C12 witness: a record without a name and with an unrecognized status has
\* been rejected with KeyNotFound.
C12_Witness ==
    /\ Translated
    /\ homework = JDict([status |-> "cancelled"])
    /\ ~exc.ok /\ exc.type = "KeyNotFound"

\* the step taken delivered a failure report (line 161 returned)
ReportDeliveredInStep ==
    /\ Len(calls') = Len(calls) + 1
    /\ calls'[Len(calls')].line = 161
    /\ calls'[Len(calls')].ok

\* C13: the handler invokes send_message with the failure text exactly when
\* the text differs from the last delivered failure report; otherwise it
\* sends nothing and sleeps; no step outside the handler changes last_error;
\* a delivered failure report never repeats the one delivered before it.
C13_FailureDedup ==
    [][/\ pc = "except" =>
            IF FailureMessage(exc) = lastFailureDelivered
            THEN /\ calls' = calls
                 /\ \A i \in 1..Len(calls) : ~calls[i].ok
                 /\ pc' = "sleep"
                 /\ last_error' = last_error
            ELSE /\ Len(calls') = Len(calls) + 1
                 /\ calls'[Len(calls')].message = FailureMessage(exc)
                 /\ calls'[Len(calls')].line = 161
       /\ pc # "except" => last_error' = last_error
       /\ ReportDeliveredInStep =>
            calls'[Len(calls')].message # lastFailureDelivered]_vars

\* C13 witness: a failure whose text was already delivered has been
\* suppressed, in a run that also delivered a status message.
C13_Witness ==
    /\ pc = "sleep"
    /\ ~exc.ok /\ exc.type = "RequestStatusError"
    /\ calls = <<>>
    /\ lastFailureDelivered = FailureMessage(exc)
    /\ lastStatusDelivered # <<>>

\* C14: last_message is the text of the last delivered status message and
\* last_error the text of the last delivered failure report ('' when there
\* is none), and a send_message call that raises changes neither.
C14_LastStateOnDelivery ==
    /\ [](last_message = lastStatusDelivered /\ last_error = lastFailureDelivered)
    /\ [][SendFailedInStep =>
            last_message' = last_message /\ last_error' = last_error]_vars

\* C14 witness: the send of a new status message has failed and last_message
\* still holds the previously delivered one.
C14_Witness ==
    /\ pc = "except"
    /\ Len(calls) = 1 /\ calls[1].line = 152 /\ ~calls[1].ok
    /\ last_message # <<>>
    /\ last_message # calls[1].message
    /\ last_message = lastStatusDelivered

\* check_response has just been applied to a payload that main could read
\* current_date from
Validated ==
    /\ pc \in {"send", "except"} /\ calls = <<>>
    /\ IsDict(response) /\ HasKey(response, "current_date")

FailedWith(type) == pc = "except" /\ ~exc.ok /\ exc.type = type

\* C15: check_response fails with KeyNotFound when `homeworks` is missing,
\* with TypeError when `homeworks` is not a list, and otherwise returns the
\* first element of `homeworks`; nothing but TypeError and KeyNotFound comes
\* out of it.
C15_CheckResponseReference ==
    Validated =>
        IF ~HasKey(response, "homeworks")
        THEN FailedWith("KeyNotFound")
        ELSE IF ~IsList(response.v.homeworks)
        THEN FailedWith("TypeError")
        ELSE /\ homework.t = "dict"
             /\ homework = response.v.homeworks.v[1]

\* C16: whichever way the fetch fails (no connection, non-200 status, body
\* that does not decode), the error main catches is RequestStatusError, and
\* a call of get_api_answer makes exactly one HTTP request.
C16_FetchErrorsWrapped ==
    /\ (http # NoHttp) => requests = 1
    /\ (http # NoHttp /\ FetchFailed(http)) =>
          /\ pc \in {"except", "sleep", "crashed"}
          /\ ~exc.ok /\ exc.type = "RequestStatusError"
          /\ response = NoResponse

\* C16 witness: a 200 answer whose body does not decode has been turned into
\* RequestStatusError.
C16_Witness ==
    /\ pc = "except"
    /\ http.kind = "http" /\ http.status = "200" /\ ~http.body.json
    /\ requests = 1
    /\ ~exc.ok /\ exc.type = "RequestStatusError"

\* the step taken calls get_api_answer
FetchStep == pc = "fetch" /\ pc' # "fetch"

\* C17: every fetch but the first one is made after exactly one
\* time.sleep(RETRY_PERIOD) since the fetch before it, whichever path the
\* cycle took, and the first one after none.
C17_OneSleepBetweenFetches ==
    /\ [](sleeps = <<>> \/ sleeps = <<RETRY_PERIOD>>)
    /\ [](pc = "sleep" => sleeps = <<RETRY_PERIOD>>)
    /\ [][FetchStep =>
            IF everFetched THEN sleeps = <<RETRY_PERIOD>> ELSE sleeps = <<>>]_vars

\* C17 witness: the loop is back at the fetch having slept once, in a run
\* that has been through the success path and the notified-failure path.
C17_Witness ==
    /\ pc = "fetch"
    /\ everFetched
    /\ sleeps = <<RETRY_PERIOD>>
    /\ lastFailureDelivered # <<>>
    /\ lastStatusDelivered # <<>>

\* a well-formed payload whose first homework is a valid record
ValidFirst(r) ==
    /\ IsDict(r)
    /\ HasKey(r, "homeworks") /\ HasKey(r, "current_date")
    /\ IsList(r.v.homeworks) /\ Len(r.v.homeworks.v) >= 1
    /\ RefParseStatus(r.v.homeworks.v[1]).ok

FirstMessage(r) == RefParseStatus(r.v.homeworks.v[1]).value

InValidFirstCycle ==
    pc \in {"send", "except", "sleep", "crashed"} /\ ValidFirst(response)

\* C18 as stated: in a cycle whose payload has a valid first homework, the
\* status message is the translation of that first element alone, the cursor
\* is the response's current_date, and no failure is reported.
C18_FirstElementOnly_AsStated ==
    InValidFirstCycle =>
        /\ timestamp = response.v.current_date
        /\ homework = response.v.homeworks.v[1]
        /\ pc = "send" => message = FirstMessage(response)
        /\ \A i \in 1..Len(calls) : calls[i].message = FirstMessage(response)
        /\ exc.ok

\* C18 amended: the same, except that a failure is reported when, and only
\* when, send_message raised for that status message; the failure is then
\* the SendMessageError and its report is the only other message.
C18_FirstElementOnly ==
    InValidFirstCycle =>
        /\ timestamp = response.v.current_date
        /\ homework = response.v.homeworks.v[1]
        /\ pc = "send" => message = FirstMessage(response)
        /\ Len(calls) >= 1 =>
             /\ calls[1].message = FirstMessage(response)
             /\ calls[1].line \in {152, 156}
        /\ exc.ok <=> (calls = <<>> \/ calls[1].ok)
        /\ ~exc.ok => exc.type = "SendMessageError"
        /\ Len(calls) = 2 =>
             /\ calls[2].line = 161
             /\ calls[2].message = FailureMessage(exc)

\* C18 witness: a two-element list headed by hw1/approved has produced the
\* approved message for hw1 and moved the cursor to its current_date.
C18_Witness ==
    /\ pc = "sleep"
    /\ ValidFirst(response)
    /\ Len(response.v.homeworks.v) = 2
    /\ response.v.homeworks.v[1] =
           JDict([homework_name |-> "hw1", status |-> "approved"])
    /\ response.v.current_date = 1 /\ timestamp = 1 /\ cycleStart = 0
    /\ calls = <<[message |-> <<"Izmenilsya status proverki raboty \"", "hw1",
                               "\". ",
                               "Rabota proverena: revyueru vsyo ponravilos. Ura!">>,
                  ok |-> TRUE, line |-> 152]>>

\* C19: once the tokens have passed, main() calls send_message with the
\* announcement exactly once, before any fetch; when that call raises the
\* process ends without fetching; the announcement leaves last_message and
\* last_error (and what counts as delivered) empty.
C19_StartupOrdering ==
    /\ [](announced <= 1)
    /\ []((pc \in {"fetch", "process", "send", "except", "sleep"}
             \/ everFetched) => announced = 1)
    /\ []((pc = "crashed" /\ ~everFetched) =>
             /\ Len(calls) = 1 /\ calls[1].line = 141 /\ ~calls[1].ok
             /\ exitCode = <<1>>)
    /\ [][/\ announced' # announced =>
               /\ pc = "announce" /\ AllTokensPresent /\ ~everFetched
               /\ Len(calls') = 1
               /\ calls'[1].message = <<"Nachinayu proverku domashnih rabot">>
               /\ IF calls'[1].ok THEN pc' = "fetch" ELSE pc' = "crashed"
               /\ ~everFetched'
               /\ last_message' = <<>> /\ last_error' = <<>>
               /\ lastStatusDelivered' = <<>> /\ lastFailureDelivered' = <<>>
          /\ FetchStep => announced = 1
          /\ pc # "crashed"]_vars

\* C19 witness: the announcement could not be delivered and the process has
\* ended before any fetch.
C19_Witness ==
    /\ pc = "crashed"
    /\ announced = 1
    /\ ~everFetched /\ http = NoHttp
    /\ calls = <<[message |-> StartMessage, ok |-> FALSE, line |-> 141]>>
====
